---- MODULE Spec2Model ----
(***************************************************************************)
(* Model of framework_codegen_python: the classification context, the      *)
(* priority-ordered strategy selector, the three per-file strategies and   *)
(* the default client workload fallback.                                   *)
(*                                                                         *)
(* Strings that the code inspects character by character (file names,      *)
(* package and service names) are sequences of one-character strings.      *)
(***************************************************************************)
EXTENDS Integers, Sequences, FiniteSets, TLC

VARIABLES
    files,                      \* the request's file descriptors, in processing order
    remote_file_to_actr_type,   \* GenerationContext.remote_file_to_actr_type
    local_files_set,            \* GenerationContext.local_files_set
    remote_services,            \* GenerationContext.remote_services
    has_local_workload,         \* GenerationContext.has_local_workload
    candidates,                 \* the list handed to StrategySelector(...)
    strategies,                 \* StrategySelector.strategies
    selected,                   \* what the last select_strategy call returned
    verdict,                    \* what the last is_remote / is_local calls returned
    output,                     \* the run's collected GeneratedFile list
    log,                        \* stderr: the strategy name printed per file
    i,                          \* index of the next file of the per-file loop
    fallback_evals,             \* how many times should_generate was consulted
    raised_at,                  \* number of the emitter call that raised (0: none has)
    tasks,                      \* per file, the step a concurrent run has reached
    pc                          \* position of the run

vars == <<files, remote_file_to_actr_type, local_files_set, remote_services,
          has_local_workload, candidates, strategies, selected, verdict,
          output, log, i, fallback_evals, raised_at, tasks, pc>>

----------------------------------------------------------------------------
(* Bounds of the model *)

MaxFiles == 2

MaxServices == 2

MaxStrategies == 3

MaxPriority == 3

MaxPathLen == 4

----------------------------------------------------------------------------
(* Descriptor model *)

EmptyString == <<>>

ServiceName(k) == <<"S", "v", "C">> \o [j \in 1..k |-> "x"]

ServiceDescriptor(k) == [name |-> ServiceName(k), method |-> <<"m1", "m2">>]

Services(n) == [k \in 1..n |-> ServiceDescriptor(k)]

Packages == {EmptyString, <<"e", "A">>}

FileNames == {<<"a", "\\", "b">>, <<"c">>}

FileDescriptors ==
    {[package |-> p, name |-> nm, service |-> Services(n)] :
        p \in Packages, nm \in FileNames, n \in 0..MaxServices}

RemoteServiceInfo(nm) ==
    [service_name |-> nm, route_keys |-> <<"k">>, actr_type |-> <<"acme", nm>>]

RemoteServiceCatalogs ==
    {<<>>, <<RemoteServiceInfo("X"), RemoteServiceInfo("Y")>>}

CatalogKeys == {<<"a", "/", "b">>, <<"c">>}

GeneratedFile(name, content) == [name |-> name, content |-> content]

----------------------------------------------------------------------------
(* GenerationContext *)

GenerationContext(remote, local, services, flag) ==
    [remote_file_to_actr_type |-> remote,
     local_files_set |-> local,
     remote_services |-> services,
     has_local_workload |-> flag]

context ==
    GenerationContext(remote_file_to_actr_type, local_files_set,
                      remote_services, has_local_workload)

\* mutant: the name is looked up as written
normalized_name_verbatim(name) ==
    name

\* str.replace("\\", "/")
normalized_name(name) ==
    [k \in 1..Len(name) |-> IF name[k] = "\\" THEN "/" ELSE name[k]]

is_remote(file_desc, ctx) ==
    normalized_name(file_desc.name) \in DOMAIN ctx.remote_file_to_actr_type

is_local(file_desc, ctx) ==
    normalized_name(file_desc.name) \in ctx.local_files_set

has_services(file_desc, ctx) ==
    Len(file_desc.service) > 0

----------------------------------------------------------------------------
(* generators: the emitter capabilities.  Each returns a value built from  *)
(* exactly the arguments it is called with.                                *)

IsUpper(c) == c \in {"A", "C", "S"}

ToLower(c) ==
    CASE c = "A" -> "a"
      [] c = "C" -> "c"
      [] c = "S" -> "s"
      [] OTHER -> c

RECURSIVE snake_from(_, _)
snake_from(s, k) ==
    IF k > Len(s) THEN <<>>
    ELSE (IF k > 1 /\ IsUpper(s[k]) /\ ~IsUpper(s[k - 1]) /\ s[k - 1] # "_"
          THEN <<"_">> ELSE <<>>)
         \o <<ToLower(s[k])>> \o snake_from(s, k + 1)

to_snake_case(s) == snake_from(s, 1)

generate_empty_local_workload(package, proto_name, services) ==
    [name |-> <<"empty_local_workload">> \o to_snake_case(package),
     content |-> [emitter |-> "generate_empty_local_workload",
                  args |-> <<package, proto_name, services>>]]

generate_remote_extensions_only(package, proto_name, service_name, methods) ==
    [name |-> <<"remote_extensions">> \o to_snake_case(service_name),
     content |-> [emitter |-> "generate_remote_extensions_only",
                  args |-> <<package, proto_name, service_name, methods>>]]

generate_local_actor_code(package_name, proto_name, service_name, methods, services) ==
    [emitter |-> "generate_local_actor_code",
     args |-> <<package_name, proto_name, service_name, methods, services>>]

generate_client_workload(services) ==
    [name |-> <<"client_workload">>,
     content |-> [emitter |-> "generate_client_workload",
                  args |-> <<services>>]]

----------------------------------------------------------------------------
(* Strategies.  A strategy object is a record of its name and priority;    *)
(* can_handle and generate dispatch on the name.                           *)

Strategy(name, priority) == [name |-> name, priority |-> priority]

PRIORITY_EMPTY_LOCAL_WORKLOAD == 1

PRIORITY_REMOTE_SERVICE == 2

PRIORITY_LOCAL_SERVICE == 3

PRIORITY_DEFAULT_CLIENT_WORKLOAD == 999

EmptyLocalWorkloadStrategy ==
    Strategy("EmptyLocalWorkload", PRIORITY_EMPTY_LOCAL_WORKLOAD)

RemoteServiceStrategy ==
    Strategy("RemoteService", PRIORITY_REMOTE_SERVICE)

LocalServiceStrategy ==
    Strategy("LocalService", PRIORITY_LOCAL_SERVICE)

DefaultClientWorkloadStrategy ==
    Strategy("DefaultClientWorkload", PRIORITY_DEFAULT_CLIENT_WORKLOAD)

\* Python's None
None == Strategy("None", 0)

\* mutant: the service count is not consulted
EmptyLocalWorkload_can_handle_any_services(file_desc, ctx) ==
    /\ ~is_remote(file_desc, ctx)
    /\ is_local(file_desc, ctx)

\* mutant: remote membership is not consulted
EmptyLocalWorkload_can_handle_ignores_remote(file_desc, ctx) ==
    /\ ~has_services(file_desc, ctx)
    /\ is_local(file_desc, ctx)

EmptyLocalWorkload_can_handle(file_desc, ctx) ==
    /\ ~is_remote(file_desc, ctx)
    /\ ~has_services(file_desc, ctx)
    /\ is_local(file_desc, ctx)

RemoteService_can_handle(file_desc, ctx) ==
    is_remote(file_desc, ctx)

\* mutant: remote membership is not consulted
LocalService_can_handle_ignores_remote(file_desc, ctx) ==
    has_services(file_desc, ctx)

\* mutant: the file must also be local-marked
LocalService_can_handle_requires_local(file_desc, ctx) ==
    /\ ~is_remote(file_desc, ctx)
    /\ has_services(file_desc, ctx)
    /\ is_local(file_desc, ctx)

LocalService_can_handle(file_desc, ctx) ==
    /\ ~is_remote(file_desc, ctx)
    /\ has_services(file_desc, ctx)

DefaultClientWorkload_can_handle(file_desc, ctx) ==
    FALSE

\* Synthetic strategies (subclasses of GenerationStrategy written by a caller)
\* whose predicates overlap each other and the default ones.
SyntheticAlways_can_handle(file_desc, ctx) ==
    TRUE

SyntheticServices_can_handle(file_desc, ctx) ==
    has_services(file_desc, ctx)

can_handle(strategy, file_desc, ctx) ==
    CASE strategy.name = "EmptyLocalWorkload" -> EmptyLocalWorkload_can_handle(file_desc, ctx)
      [] strategy.name = "RemoteService" -> RemoteService_can_handle(file_desc, ctx)
      [] strategy.name = "LocalService" -> LocalService_can_handle(file_desc, ctx)
      [] strategy.name = "DefaultClientWorkload" -> DefaultClientWorkload_can_handle(file_desc, ctx)
      [] strategy.name = "SyntheticAlways" -> SyntheticAlways_can_handle(file_desc, ctx)
      [] strategy.name = "SyntheticServices" -> SyntheticServices_can_handle(file_desc, ctx)

create_default_strategies ==
    <<EmptyLocalWorkloadStrategy, RemoteServiceStrategy, LocalServiceStrategy>>

----------------------------------------------------------------------------
(* StrategySelector *)

\* sorted(..., key=priority) is stable: an element goes after every element
\* already placed whose key is not larger.
RECURSIVE insert_by_priority(_, _)
insert_by_priority(s, sorted_list) ==
    IF sorted_list = <<>> THEN <<s>>
    ELSE IF s.priority < Head(sorted_list).priority
         THEN <<s>> \o sorted_list
         ELSE <<Head(sorted_list)>> \o insert_by_priority(s, Tail(sorted_list))

RECURSIVE sorted_from(_, _, _)
sorted_from(list, k, acc) ==
    IF k > Len(list) THEN acc
    ELSE sorted_from(list, k + 1, insert_by_priority(list[k], acc))

sorted_by_priority(list) == sorted_from(list, 1, <<>>)

\* mutant: the list is kept in the order given
StrategySelector_init_unsorted(list) ==
    list

StrategySelector_init(list) == sorted_by_priority(list)

RECURSIVE select_from(_, _, _, _)
select_from(list, k, file_desc, ctx) ==
    IF k > Len(list) THEN None
    ELSE IF can_handle(list[k], file_desc, ctx) THEN list[k]
         ELSE select_from(list, k + 1, file_desc, ctx)

select_strategy(list, file_desc, ctx) == select_from(list, 1, file_desc, ctx)

----------------------------------------------------------------------------
(* generate.  An emitter call may raise; `fail` is the number of the       *)
(* emitter call of this generate that raises (0: none does).  The result   *)
(* holds the returned list, the flag as generate leaves it, and whether    *)
(* the exception left generate.                                            *)

Outcome(generated_files, flag, raised) ==
    [generated_files |-> generated_files,
     has_local_workload |-> flag,
     raised |-> raised]

SERVICE_ACTOR_SUFFIX ==
    <<"_", "s", "e", "r", "v", "i", "c", "e", "_", "a", "c", "t", "o", "r", ".", "p", "y">>

\* mutant: nothing is generated when there is no remote service to proxy
EmptyLocalWorkload_generate_skips_without_remotes(file_desc, ctx, fail) ==
    IF fail = 1
    THEN Outcome(<<>>, ctx.has_local_workload, TRUE)
    ELSE IF Len(ctx.remote_services) = 0
    THEN Outcome(<<>>, ctx.has_local_workload, FALSE)
    ELSE LET out == generate_empty_local_workload(
                        file_desc.package, file_desc.name, ctx.remote_services)
         IN Outcome(<<GeneratedFile(out.name, out.content)>>, TRUE, FALSE)

\* mutant: the flag is not set
EmptyLocalWorkload_generate_keeps_flag(file_desc, ctx, fail) ==
    IF fail = 1
    THEN Outcome(<<>>, ctx.has_local_workload, TRUE)
    ELSE LET out == generate_empty_local_workload(
                        file_desc.package, file_desc.name, ctx.remote_services)
         IN Outcome(<<GeneratedFile(out.name, out.content)>>,
                    ctx.has_local_workload, FALSE)

EmptyLocalWorkload_generate(file_desc, ctx, fail) ==
    IF fail = 1
    THEN Outcome(<<>>, ctx.has_local_workload, TRUE)
    ELSE LET out == generate_empty_local_workload(
                        file_desc.package, file_desc.name, ctx.remote_services)
         IN Outcome(<<GeneratedFile(out.name, out.content)>>, TRUE, FALSE)

RECURSIVE RemoteService_loop(_, _, _, _, _)
RemoteService_loop(file_desc, ctx, fail, k, generated_files) ==
    IF k > Len(file_desc.service)
    THEN Outcome(generated_files, ctx.has_local_workload, FALSE)
    ELSE IF fail = k
    THEN Outcome(<<>>, ctx.has_local_workload, TRUE)
    ELSE LET service == file_desc.service[k]
             out == generate_remote_extensions_only(
                        file_desc.package, file_desc.name,
                        service.name, service.method)
         IN RemoteService_loop(file_desc, ctx, fail, k + 1,
                Append(generated_files, GeneratedFile(out.name, out.content)))

\* mutant: a remote file clears the flag
RemoteService_generate_clears_flag(file_desc, ctx, fail) ==
    LET res == RemoteService_loop(file_desc, ctx, fail, 1, <<>>)
    IN IF res.raised THEN res ELSE Outcome(res.generated_files, FALSE, FALSE)

\* mutant: the flag is set as the local strategies set it
RemoteService_generate_sets_flag(file_desc, ctx, fail) ==
    LET res == RemoteService_loop(file_desc, ctx, fail, 1, <<>>)
    IN IF res.raised THEN res ELSE Outcome(res.generated_files, TRUE, FALSE)

RemoteService_generate(file_desc, ctx, fail) ==
    RemoteService_loop(file_desc, ctx, fail, 1, <<>>)

\* mutant: the file name always comes from the service name
LocalService_file_name_from_service(file_desc, service) ==
    to_snake_case(service.name) \o SERVICE_ACTOR_SUFFIX

LocalService_file_name(file_desc, service) ==
    LET package_snake == IF file_desc.package # EmptyString
                         THEN to_snake_case(file_desc.package)
                         ELSE to_snake_case(service.name)
    IN package_snake \o SERVICE_ACTOR_SUFFIX

RECURSIVE LocalService_loop(_, _, _, _, _)
LocalService_loop(file_desc, ctx, fail, k, generated_files) ==
    IF k > Len(file_desc.service)
    THEN Outcome(generated_files, TRUE, FALSE)
    ELSE IF fail = k
    THEN Outcome(<<>>, ctx.has_local_workload, TRUE)
    ELSE LET service == file_desc.service[k]
             out == generate_local_actor_code(
                        file_desc.package, file_desc.name,
                        service.name, service.method, ctx.remote_services)
             file_name == LocalService_file_name(file_desc, service)
         IN LocalService_loop(file_desc, ctx, fail, k + 1,
                Append(generated_files, GeneratedFile(file_name, out)))

\* mutant: an emitter exception is caught and an empty list returned
LocalService_generate_swallows(file_desc, ctx, fail) ==
    LET res == LocalService_loop(file_desc, ctx, fail, 1, <<>>)
    IN IF res.raised THEN Outcome(<<>>, ctx.has_local_workload, FALSE) ELSE res

\* mutant: the flag is set as soon as one service has been emitted
LocalService_generate_sets_flag_early(file_desc, ctx, fail) ==
    LET res == LocalService_loop(file_desc, ctx, fail, 1, <<>>)
    IN IF res.raised /\ fail > 1 THEN Outcome(<<>>, TRUE, TRUE) ELSE res

\* mutant: the flag is not set
LocalService_generate_keeps_flag(file_desc, ctx, fail) ==
    LET res == LocalService_loop(file_desc, ctx, fail, 1, <<>>)
    IN Outcome(res.generated_files, ctx.has_local_workload, res.raised)

LocalService_generate(file_desc, ctx, fail) ==
    LocalService_loop(file_desc, ctx, fail, 1, <<>>)

DefaultClientWorkload_generate(file_desc, ctx, fail) ==
    Outcome(<<>>, ctx.has_local_workload, FALSE)

generate(strategy, file_desc, ctx, fail) ==
    CASE strategy.name = "EmptyLocalWorkload" -> EmptyLocalWorkload_generate(file_desc, ctx, fail)
      [] strategy.name = "RemoteService" -> RemoteService_generate(file_desc, ctx, fail)
      [] strategy.name = "LocalService" -> LocalService_generate(file_desc, ctx, fail)
      [] OTHER -> DefaultClientWorkload_generate(file_desc, ctx, fail)

\* how many emitter calls generate makes for the file
emitter_calls(strategy, file_desc) ==
    CASE strategy.name = "EmptyLocalWorkload" -> 1
      [] strategy.name = "RemoteService" -> Len(file_desc.service)
      [] strategy.name = "LocalService" -> Len(file_desc.service)
      [] OTHER -> 0

\* mutant: the flag is not consulted
should_generate_ignores_flag(ctx) ==
    Len(ctx.remote_services) > 0

\* mutant: the flag test is not negated
should_generate_inverted(ctx) ==
    /\ Len(ctx.remote_services) > 0
    /\ ctx.has_local_workload

should_generate(ctx) ==
    /\ Len(ctx.remote_services) > 0
    /\ ~ctx.has_local_workload

\* mutant: producing the default workload marks a workload as present
generate_default_workload_sets_flag(ctx, fail) ==
    IF fail = 1
    THEN Outcome(<<>>, ctx.has_local_workload, TRUE)
    ELSE LET out == generate_client_workload(ctx.remote_services)
         IN Outcome(<<GeneratedFile(out.name, out.content)>>, TRUE, FALSE)

generate_default_workload(ctx, fail) ==
    IF fail = 1
    THEN Outcome(<<>>, ctx.has_local_workload, TRUE)
    ELSE LET out == generate_client_workload(ctx.remote_services)
         IN Outcome(<<GeneratedFile(out.name, out.content)>>,
                    ctx.has_local_workload, FALSE)

----------------------------------------------------------------------------
(* The run: every file once, in request order, then the fallback rule.     *)

RECURSIVE SeqsUpTo(_, _)
SeqsUpTo(S, n) ==
    IF n = 0 THEN {<<>>}
    ELSE LET shorter == SeqsUpTo(S, n - 1)
         IN shorter \cup {Append(q, x) : q \in {r \in shorter : Len(r) = n - 1}, x \in S}

ActrTypes(keys) == [k \in keys |-> <<"acme", "Remote">>]

Init ==
    /\ files \in SeqsUpTo(FileDescriptors, MaxFiles)
    /\ remote_file_to_actr_type \in {ActrTypes(keys) : keys \in SUBSET CatalogKeys}
    /\ local_files_set \in SUBSET CatalogKeys
    /\ remote_services \in RemoteServiceCatalogs
    /\ has_local_workload = FALSE
    /\ candidates = create_default_strategies
    /\ strategies = StrategySelector_init(create_default_strategies)
    /\ selected = None
    /\ verdict = <<>>
    /\ output = <<>>
    /\ log = <<>>
    /\ i = 1
    /\ fallback_evals = 0
    /\ raised_at = 0
    /\ tasks = <<>>
    /\ pc = "files"

\* One iteration of the per-file loop: select, then generate and collect.
\* An exception of generate leaves the loop and ends the run.
ProcessFile ==
    /\ pc = "files"
    /\ i <= Len(files)
    /\ LET file_desc == files[i]
           strategy == select_strategy(strategies, file_desc, context)
       IN /\ selected' = strategy
          /\ log' = Append(log, strategy.name)
          /\ IF strategy = None
             THEN /\ UNCHANGED <<has_local_workload, output, raised_at>>
                  /\ i' = i + 1
                  /\ pc' = "files"
             ELSE \E fail \in 0..emitter_calls(strategy, file_desc) :
                    LET res == generate(strategy, file_desc, context, fail)
                    IN /\ raised_at' = fail
                       /\ has_local_workload' = res.has_local_workload
                       /\ IF res.raised
                          THEN /\ UNCHANGED <<output, i>>
                               /\ pc' = "aborted"
                          ELSE /\ output' = output \o res.generated_files
                               /\ i' = i + 1
                               /\ pc' = "files"
    /\ UNCHANGED <<files, remote_file_to_actr_type, local_files_set,
                   remote_services, candidates, strategies, verdict,
                   fallback_evals, tasks>>

\* After the last file: should_generate is consulted and, when it says so,
\* generate_default_workload adds its one file.
Fallback ==
    /\ pc = "files"
    /\ i > Len(files)
    /\ fallback_evals' = fallback_evals + 1
    /\ IF should_generate(context)
       THEN \E fail \in 0..1 :
              LET res == generate_default_workload(context, fail)
              IN /\ raised_at' = fail
                 /\ has_local_workload' = res.has_local_workload
                 /\ IF res.raised
                    THEN /\ UNCHANGED output
                         /\ pc' = "aborted"
                    ELSE /\ output' = output \o res.generated_files
                         /\ pc' = "done"
       ELSE /\ UNCHANGED <<has_local_workload, output, raised_at>>
            /\ pc' = "done"
    /\ UNCHANGED <<files, remote_file_to_actr_type, local_files_set,
                   remote_services, candidates, strategies, selected, verdict,
                   log, i, tasks>>

Next == ProcessFile \/ Fallback

Spec == Init /\ [][Next]_vars

----------------------------------------------------------------------------
(* The selector on its own, over candidate lists that also hold synthetic  *)
(* strategies: construction sorts the list, select_strategy scans it.      *)

SyntheticStrategies ==
    {Strategy(n, p) : n \in {"SyntheticAlways", "SyntheticServices"}, p \in 1..MaxPriority}

StrategyPool ==
    {EmptyLocalWorkloadStrategy, RemoteServiceStrategy, LocalServiceStrategy,
     DefaultClientWorkloadStrategy} \cup SyntheticStrategies

SelectorFiles ==
    {[package |-> EmptyString, name |-> nm, service |-> Services(n)] :
        nm \in FileNames, n \in 0..1}

InitSel ==
    /\ files \in {<<f>> : f \in SelectorFiles}
    /\ remote_file_to_actr_type \in {ActrTypes({}), ActrTypes({<<"a", "/", "b">>})}
    /\ local_files_set = {<<"a", "/", "b">>}
    /\ remote_services = <<>>
    /\ has_local_workload = FALSE
    /\ candidates \in SeqsUpTo(StrategyPool, MaxStrategies)
    /\ strategies = <<>>
    /\ selected = None
    /\ verdict = <<>>
    /\ output = <<>>
    /\ log = <<>>
    /\ i = 1
    /\ fallback_evals = 0
    /\ raised_at = 0
    /\ tasks = <<>>
    /\ pc = "new"

SelectorInit ==
    /\ pc = "new"
    /\ strategies' = StrategySelector_init(candidates)
    /\ pc' = "constructed"
    /\ UNCHANGED <<files, remote_file_to_actr_type, local_files_set,
                   remote_services, has_local_workload, candidates, selected,
                   verdict, output, log, i, fallback_evals, raised_at, tasks>>

SelectStrategy ==
    /\ pc = "constructed"
    /\ selected' = select_strategy(strategies, files[1], context)
    /\ log' = Append(log, selected'.name)
    /\ pc' = "selected"
    /\ UNCHANGED <<files, remote_file_to_actr_type, local_files_set,
                   remote_services, has_local_workload, candidates, strategies,
                   verdict, output, i, fallback_evals, raised_at, tasks>>

NextSel == SelectorInit \/ SelectStrategy

SpecSel == InitSel /\ [][NextSel]_vars

----------------------------------------------------------------------------
(* The selector over the three default strategies under every assignment   *)
(* of priorities to them.                                                  *)

InitPrio ==
    /\ files \in {<<f>> : f \in SelectorFiles}
    /\ remote_file_to_actr_type \in {ActrTypes({}), ActrTypes({<<"a", "/", "b">>})}
    /\ local_files_set \in {{}, {<<"a", "/", "b">>}}
    /\ remote_services = <<>>
    /\ has_local_workload = FALSE
    /\ \E p1 \in 1..MaxPriority, p2 \in 1..MaxPriority, p3 \in 1..MaxPriority :
         candidates = <<Strategy("EmptyLocalWorkload", p1),
                        Strategy("RemoteService", p2),
                        Strategy("LocalService", p3)>>
    /\ strategies = <<>>
    /\ selected = None
    /\ verdict = <<>>
    /\ output = <<>>
    /\ log = <<>>
    /\ i = 1
    /\ fallback_evals = 0
    /\ raised_at = 0
    /\ tasks = <<>>
    /\ pc = "new"

SpecPrio == InitPrio /\ [][NextSel]_vars

----------------------------------------------------------------------------
(* The classification predicates on their own, over file names and catalog *)
(* keys written with either separator.                                     *)

PathChars == {"a", "/", "\\"}

RECURSIVE Strings(_, _)
Strings(S, n) ==
    IF n = 0 THEN {<<>>}
    ELSE {Append(q, x) : q \in Strings(S, n - 1), x \in S}

Paths ==
    UNION {{<<"a">> \o mid \o <<"a">> : mid \in Strings(PathChars, n)} :
              n \in 0..(MaxPathLen - 2)}

InitPath ==
    /\ \E nm \in Paths :
         files = <<[package |-> EmptyString, name |-> nm, service |-> <<>>]>>
    /\ \E key \in Paths :
         /\ remote_file_to_actr_type \in {ActrTypes({}), ActrTypes({key})}
         /\ local_files_set \in {{}, {key}}
    /\ remote_services = <<>>
    /\ has_local_workload = FALSE
    /\ candidates = create_default_strategies
    /\ strategies = StrategySelector_init(create_default_strategies)
    /\ selected = None
    /\ verdict = <<>>
    /\ output = <<>>
    /\ log = <<>>
    /\ i = 1
    /\ fallback_evals = 0
    /\ raised_at = 0
    /\ tasks = <<>>
    /\ pc = "new"

Classify ==
    /\ pc = "new"
    /\ verdict' = [is_remote |-> is_remote(files[1], context),
                   is_local |-> is_local(files[1], context)]
    /\ pc' = "classified"
    /\ UNCHANGED <<files, remote_file_to_actr_type, local_files_set,
                   remote_services, has_local_workload, candidates, strategies,
                   selected, output, log, i, fallback_evals, raised_at, tasks>>

NextPath == Classify

SpecPath == InitPath /\ [][NextPath]_vars

----------------------------------------------------------------------------
(* The per-file steps run concurrently: each file is selected and then     *)
(* generated, in any order and interleaved with the steps of the other     *)
(* files.  generate reads and writes the flag in one step.  The fallback   *)
(* rule is consulted after the last file has finished.                     *)

ParFiles ==
    {[package |-> EmptyString, name |-> nm, service |-> Services(n)] :
        nm \in FileNames, n \in 0..1}

Task(state, strategy) == [state |-> state, strategy |-> strategy]

InitPar ==
    /\ files \in SeqsUpTo(ParFiles, MaxFiles)
    /\ remote_file_to_actr_type \in {ActrTypes(keys) : keys \in SUBSET CatalogKeys}
    /\ local_files_set \in SUBSET CatalogKeys
    /\ remote_services \in RemoteServiceCatalogs
    /\ has_local_workload = FALSE
    /\ candidates = create_default_strategies
    /\ strategies = StrategySelector_init(create_default_strategies)
    /\ selected = None
    /\ verdict = <<>>
    /\ output = <<>>
    /\ log = <<>>
    /\ i = 1
    /\ fallback_evals = 0
    /\ raised_at = 0
    /\ tasks = [k \in 1..Len(files) |-> Task("pending", None)]
    /\ pc = "files"

ParSelect(k) ==
    /\ pc = "files"
    /\ tasks[k].state = "pending"
    /\ LET strategy == select_strategy(strategies, files[k], context)
       IN /\ selected' = strategy
          /\ log' = Append(log, strategy.name)
          /\ IF strategy = None
             THEN /\ tasks' = [tasks EXCEPT ![k] = Task("finished", strategy)]
                  /\ i' = i + 1
             ELSE /\ tasks' = [tasks EXCEPT ![k] = Task("selected", strategy)]
                  /\ i' = i
    /\ UNCHANGED <<files, remote_file_to_actr_type, local_files_set,
                   remote_services, has_local_workload, candidates, strategies,
                   verdict, output, fallback_evals, raised_at, pc>>

ParGenerate(k) ==
    /\ pc = "files"
    /\ tasks[k].state = "selected"
    /\ \E fail \in 0..emitter_calls(tasks[k].strategy, files[k]) :
         LET res == generate(tasks[k].strategy, files[k], context, fail)
         IN /\ raised_at' = fail
            /\ has_local_workload' = res.has_local_workload
            /\ IF res.raised
               THEN /\ UNCHANGED <<output, i, tasks>>
                    /\ pc' = "aborted"
               ELSE /\ output' = output \o res.generated_files
                    /\ tasks' = [tasks EXCEPT ![k] = Task("finished", tasks[k].strategy)]
                    /\ i' = i + 1
                    /\ pc' = "files"
    /\ UNCHANGED <<files, remote_file_to_actr_type, local_files_set,
                   remote_services, candidates, strategies, selected, verdict,
                   log, fallback_evals>>

NextPar ==
    \/ \E k \in 1..Len(files) : ParSelect(k)
    \/ \E k \in 1..Len(files) : ParGenerate(k)
    \/ Fallback

SpecPar == InitPar /\ [][NextPar]_vars

----------------------------------------------------------------------------
(* Properties *)

Range(seq) == {seq[k] : k \in 1..Len(seq)}

FallbackArtifacts ==
    {k \in 1..Len(output) : output[k].content.emitter = "generate_client_workload"}

LocalWorkloadArtifacts ==
    {k \in 1..Len(output) :
        output[k].content.emitter \in
            {"generate_empty_local_workload", "generate_local_actor_code"}}

LocalStrategyNames == {"EmptyLocalWorkload", "LocalService"}

LoopCompleted == pc \in {"files", "done", "aborted"} /\ i > Len(files)

RuleHolds == Len(remote_services) > 0 /\ ~has_local_workload

\* C1: in a completed run the fallback artifact is in the output iff
\* remote_services is non-empty and has_local_workload is false after the
\* per-file loop; the rule is consulted once, only after the last file, and
\* the output never holds more than one fallback artifact.
C1_FallbackIffRule ==
    /\ pc = "done" => ((FallbackArtifacts # {}) <=> RuleHolds)
    /\ pc = "done" => fallback_evals = 1
    /\ fallback_evals <= 1
    /\ fallback_evals > 0 => i > Len(files)
    /\ fallback_evals = 0 => FallbackArtifacts = {}
    /\ Cardinality(FallbackArtifacts) <= 1

C1_Witness ==
    /\ pc = "done"
    /\ Len(files) = 2
    /\ log = <<"RemoteService", "None">>
    /\ Cardinality(FallbackArtifacts) = 1

\* C2: once the per-file loop has handled every file, has_local_workload is
\* true iff some file was selected by EmptyLocalWorkload or LocalService.
C2_FlagIffLocalSelected ==
    LoopCompleted =>
        (has_local_workload <=> (Range(log) \cap LocalStrategyNames # {}))

C2_Witness ==
    /\ LoopCompleted
    /\ log = <<"RemoteService", "LocalService">>
    /\ has_local_workload

\* C3: for any candidate list in any order, synthetic overlapping strategies
\* included, select_strategy returns a candidate that can handle the file and
\* whose priority is the smallest among the candidates that can; it returns
\* None iff no candidate can handle the file.
C3_SelectLowestMatching ==
    pc = "selected" =>
        LET matching == {s \in Range(candidates) : can_handle(s, files[1], context)}
        IN /\ (selected = None) <=> (matching = {})
           /\ matching # {} =>
                /\ selected \in matching
                /\ \A s \in matching : selected.priority <= s.priority

C3_Witness ==
    /\ pc = "selected"
    /\ Len(candidates) = 3
    /\ candidates[1].name = "SyntheticAlways"
    /\ candidates[2].name = "LocalService"
    /\ candidates[3].name = "SyntheticServices"
    /\ candidates[3].priority < candidates[2].priority
    /\ candidates[1].priority = candidates[2].priority
    /\ selected = candidates[3]

\* C4: EmptyLocalWorkload.can_handle and LocalService.can_handle are never
\* both true of a file, whatever the catalogs and the file's services.
C4_EmptyAndLocalExclusive ==
    \A k \in 1..Len(files) :
        ~(/\ EmptyLocalWorkload_can_handle(files[k], context)
          /\ LocalService_can_handle(files[k], context))

C4_Witness ==
    /\ log = <<"EmptyLocalWorkload", "LocalService">>
    /\ EmptyLocalWorkload_can_handle(files[1], context)
    /\ LocalService_can_handle(files[2], context)
    /\ is_local(files[2], context)

IsSeparator(c) == c \in {"/", "\\"}

\* p and q are the same path up to the separator written at each position
SamePath(p, q) ==
    /\ Len(p) = Len(q)
    /\ \A k \in 1..Len(p) : p[k] = q[k] \/ (IsSeparator(p[k]) /\ IsSeparator(q[k]))

ForwardSlashed(p) == \A k \in 1..Len(p) : p[k] # "\\"

\* C5 as stated: a catalog key and a file name that denote the same path with
\* different separators match, whichever of the two holds the backslashes.
C5_SymmetricNormalization ==
    pc = "classified" =>
        /\ \A key \in DOMAIN remote_file_to_actr_type :
              (SamePath(key, files[1].name) /\ key # files[1].name) => verdict.is_remote
        /\ \A key \in local_files_set :
              (SamePath(key, files[1].name) /\ key # files[1].name) => verdict.is_local

\* C5 amended: only the descriptor name is normalized.  is_remote (is_local)
\* is true iff the catalog (the local set) holds a key written with forward
\* slashes only that denotes the same path as the file name, whichever
\* separators the name uses; a key holding a backslash matches no file.
C5_DescriptorSideNormalization ==
    pc = "classified" =>
        /\ verdict.is_remote <=>
              \E key \in DOMAIN remote_file_to_actr_type :
                  ForwardSlashed(key) /\ SamePath(key, files[1].name)
        /\ verdict.is_local <=>
              \E key \in local_files_set :
                  ForwardSlashed(key) /\ SamePath(key, files[1].name)

C5_Witness ==
    /\ pc = "classified"
    /\ files[1].name = <<"a", "\\", "a", "a">>
    /\ DOMAIN remote_file_to_actr_type = {<<"a", "/", "a", "a">>}
    /\ local_files_set = {<<"a", "/", "a", "a">>}
    /\ verdict.is_remote
    /\ verdict.is_local

\* C6: the output never holds the fallback artifact together with an artifact
\* of EmptyLocalWorkload or LocalService, and once a file was handled by one
\* of these two the fallback artifact is never produced.
C6_NoFallbackWithLocalWorkload ==
    /\ ~(FallbackArtifacts # {} /\ LocalWorkloadArtifacts # {})
    /\ (Range(log) \cap LocalStrategyNames # {}) => FallbackArtifacts = {}

C6_Witness ==
    /\ pc = "done"
    /\ Len(remote_services) > 0
    /\ log = <<"EmptyLocalWorkload", "RemoteService">>
    /\ LocalWorkloadArtifacts # {}
    /\ FallbackArtifacts = {}

\* C7: when remote_services is non-empty, the output of a completed run holds
\* a workload artifact: one of EmptyLocalWorkload or LocalService, or the
\* fallback client workload.
C7_RunnableWorkload ==
    (pc = "done" /\ Len(remote_services) > 0) =>
        (LocalWorkloadArtifacts \cup FallbackArtifacts) # {}

C7_Witness ==
    /\ pc = "done"
    /\ Len(remote_services) > 0
    /\ log = <<"None", "RemoteService">>
    /\ LocalWorkloadArtifacts = {}
    /\ FallbackArtifacts # {}

C9_RemoteServiceFrame ==
    [][(/\ pc = "files" /\ i <= Len(files)
        /\ selected' = RemoteServiceStrategy
        /\ pc' = "files")
       => LET n == Len(files[i].service)
          IN /\ has_local_workload' = has_local_workload
             /\ Len(output') = Len(output) + n
             /\ SubSeq(output', 1, Len(output)) = output
             /\ \A k \in 1..n :
                  LET art == output'[Len(output) + k]
                  IN /\ art.content.emitter = "generate_remote_extensions_only"
                     /\ art.content.args[3] = files[i].service[k].name]_vars

C9_Witness ==
    /\ pc = "files"
    /\ i = 3
    /\ log = <<"LocalService", "RemoteService">>
    /\ selected = RemoteServiceStrategy
    /\ Len(files[2].service) = 2
    /\ has_local_workload
    /\ Len(output) = Len(files[1].service) + 2

\* C10: a file that is not remote and has services is selected by
\* LocalService whether or not it is local-marked, and a LocalService
\* generate that returns appends one artifact per service, named
\* to_snake_case(package) + "_service_actor.py" when package is non-empty
\* and to_snake_case(service.name) + "_service_actor.py" when it is empty.
C10_LocalServiceNaming ==
    [][(/\ pc = "files" /\ i <= Len(files)
        /\ ~is_remote(files[i], context)
        /\ Len(files[i].service) >= 1)
       => /\ selected' = LocalServiceStrategy
          /\ pc' = "files" =>
               LET n == Len(files[i].service)
               IN /\ Len(output') = Len(output) + n
                  /\ \A k \in 1..n :
                       LET art == output'[Len(output) + k]
                           stem == IF files[i].package # EmptyString
                                   THEN to_snake_case(files[i].package)
                                   ELSE to_snake_case(files[i].service[k].name)
                       IN /\ art.name = stem \o SERVICE_ACTOR_SUFFIX
                          /\ art.content.emitter = "generate_local_actor_code"
                          /\ art.content.args[3] = files[i].service[k].name]_vars

C10_Witness ==
    /\ pc = "files"
    /\ i = 3
    /\ log = <<"LocalService", "LocalService">>
    /\ files[1].package = EmptyString /\ Len(files[1].service) = 2
    /\ is_local(files[1], context)
    /\ files[2].package # EmptyString /\ Len(files[2].service) = 2
    /\ ~is_local(files[2], context)
    /\ Len(output) = 4
    /\ output[1].name # output[2].name
    /\ output[3].name = <<"e", "_", "a">> \o SERVICE_ACTOR_SUFFIX

\* C11: with the default strategies select_strategy returns None for a file
\* iff the file is not remote, not local-marked and has no services; for
\* such a file the loop adds no artifact, raises nothing, leaves
\* has_local_workload as it was and goes on to the next file.
C11_NoStrategyIsSilentSkip ==
    [][(pc = "files" /\ i <= Len(files))
       => /\ (selected' = None) <=>
                (/\ ~is_remote(files[i], context)
                 /\ ~is_local(files[i], context)
                 /\ Len(files[i].service) = 0)
          /\ selected' = None =>
                /\ output' = output
                /\ has_local_workload' = has_local_workload
                /\ raised_at' = raised_at
                /\ pc' = "files"
                /\ i' = i + 1]_vars

C11_Witness ==
    /\ pc = "done"
    /\ log = <<"None", "LocalService">>
    /\ ~is_local(files[2], context)
    /\ Len(output) = Len(files[2].service)
    /\ has_local_workload
    /\ raised_at = 0

\* what the set of files and the catalogs alone say about a local workload
SomeLocalFile ==
    \E f \in Range(files) :
        /\ ~is_remote(f, context)
        /\ (has_services(f, context) \/ is_local(f, context))

\* C12: the final has_local_workload, and with it the fallback decision, is
\* a function of the set of files and the catalogs alone, so it is the same
\* for every processing order and every interleaving of the per-file steps
\* in which generate updates the flag in one step.
C12_FlagOrderIndependent ==
    /\ (pc \in {"files", "done"} /\ i > Len(files)) =>
            (has_local_workload <=> SomeLocalFile)
    /\ pc = "done" =>
            ((FallbackArtifacts # {}) <=>
                (Len(remote_services) > 0 /\ ~SomeLocalFile))

C12_Witness ==
    /\ pc = "done"
    /\ Len(files) = 2
    /\ files[1].name # files[2].name
    /\ log = <<"RemoteService", "LocalService">>
    /\ tasks[1].strategy = RemoteServiceStrategy
    /\ Len(output) = 2
    /\ output[1].content.args[2] = files[2].name
    /\ output[2].content.args[2] = files[1].name
    /\ has_local_workload
    /\ Len(remote_services) > 0

\* C14: has_local_workload is false before the first operation of a run and
\* no step of the run (selection with its predicates, any generate, the
\* fallback rule and generate_default_workload) takes it from true to false.
C14_FlagMonotonic ==
    [][/\ (log = <<>> /\ i = 1 /\ fallback_evals = 0) => ~has_local_workload
       /\ has_local_workload => has_local_workload']_vars

C14_Witness ==
    /\ pc = "done"
    /\ fallback_evals = 1
    /\ log = <<"LocalService", "RemoteService">>
    /\ Len(files[2].service) = 1
    /\ has_local_workload

\* C15: a file that is not remote, has no services and is local-marked is
\* selected by EmptyLocalWorkload, and an EmptyLocalWorkload generate that
\* returns appends exactly one artifact and leaves has_local_workload true,
\* with an empty remote_services as with a non-empty one.
C15_EmptyLocalWorkloadApply ==
    [][(/\ pc = "files" /\ i <= Len(files)
        /\ ~is_remote(files[i], context)
        /\ Len(files[i].service) = 0
        /\ is_local(files[i], context))
       => /\ selected' = EmptyLocalWorkloadStrategy
          /\ pc' = "files" =>
               /\ Len(output') = Len(output) + 1
               /\ SubSeq(output', 1, Len(output)) = output
               /\ output'[Len(output')].content.emitter = "generate_empty_local_workload"
               /\ output'[Len(output')].content.args[3] = remote_services
               /\ has_local_workload']_vars

C15_Witness ==
    /\ pc = "files"
    /\ i = 3
    /\ log = <<"EmptyLocalWorkload", "EmptyLocalWorkload">>
    /\ Len(remote_services) = 0
    /\ Len(output) = 2
    /\ has_local_workload

\* C16: no step of a run changes the remote catalog, the local set or
\* remote_services, and has_local_workload changes only in a step of the
\* per-file loop that applied EmptyLocalWorkload or LocalService: a step
\* that only selects (no strategy matched), a RemoteService generate, and
\* the fallback step with should_generate and generate_default_workload
\* leave the whole context as it was.
C16_ContextFrame ==
    [][/\ remote_file_to_actr_type' = remote_file_to_actr_type
       /\ local_files_set' = local_files_set
       /\ remote_services' = remote_services
       /\ has_local_workload' # has_local_workload =>
            /\ pc = "files" /\ i <= Len(files)
            /\ selected'.name \in LocalStrategyNames]_vars

C16_Witness ==
    /\ pc = "done"
    /\ log = <<"RemoteService", "RemoteService">>
    /\ Len(output) = Len(files[1].service) + Len(files[2].service) + 1
    /\ FallbackArtifacts # {}
    /\ ~has_local_workload

\* C17: when an emitter call raises inside a generate or inside
\* generate_default_workload, the exception leaves the call: the run ends
\* there with nothing added to the output, and no further step follows, so
\* no later file is processed, nothing is retried and the fallback rule is
\* not consulted after a failure in the per-file loop.
C17_EmitterFailureAborts ==
    [][/\ pc # "aborted"
       /\ raised_at' > 0 =>
            /\ pc' = "aborted"
            /\ output' = output
            /\ i' = i
            /\ i <= Len(files) => (fallback_evals' = 0 /\ Len(log') = i)]_vars

C17_Witness ==
    /\ pc = "aborted"
    /\ raised_at = 2
    /\ Len(files) = 2
    /\ i = 1
    /\ log = <<"LocalService">>
    /\ output = <<>>
    /\ fallback_evals = 0
    /\ Len(remote_services) > 0

HandlersOf(file_desc) ==
    {s \in Range(create_default_strategies) : can_handle(s, file_desc, context)}

\* C18: at most one of EmptyLocalWorkload, RemoteService and LocalService
\* can handle a file, and the strategy selected among the three is the one
\* the default priorities select, whatever priorities the three are given.
C18_DefaultsExclusive ==
    /\ Cardinality(HandlersOf(files[1])) <= 1
    /\ pc = "selected" =>
         selected.name =
            select_strategy(StrategySelector_init(create_default_strategies),
                            files[1], context).name

C18_Witness ==
    /\ pc = "selected"
    /\ candidates[1].priority > candidates[2].priority
    /\ candidates[2].priority > candidates[3].priority
    /\ Len(files[1].service) = 1
    /\ is_local(files[1], context)
    /\ selected.name = "RemoteService"

DistinctServiceNames(file_desc) ==
    \A j, k \in 1..Len(file_desc.service) :
        j # k => file_desc.service[j].name # file_desc.service[k].name

\* C19 as stated: the artifacts one LocalService generate appends for a
\* non-remote file with distinctly named services have pairwise distinct
\* names, with an empty package as with a non-empty one.
C19_DistinctArtifactNames ==
    [][(/\ pc = "files" /\ i <= Len(files)
        /\ selected' = LocalServiceStrategy
        /\ DistinctServiceNames(files[i])
        /\ pc' = "files")
       => \A j, k \in 1..Len(files[i].service) :
             j # k => output'[Len(output) + j].name # output'[Len(output) + k].name]_vars

\* C20: when an emitter call raises inside an EmptyLocalWorkload or
\* LocalService generate, also after earlier services of the file were
\* emitted, has_local_workload keeps the value it had before the call; the
\* flag becomes true only in a generate all of whose emitter calls returned.
C20_FlagKeptOnEmitterFailure ==
    [][/\ (/\ pc = "files" /\ i <= Len(files)
           /\ selected'.name \in LocalStrategyNames
           /\ raised_at' > 0)
          => has_local_workload' = has_local_workload
       /\ (~has_local_workload /\ has_local_workload')
          => (raised_at' = 0 /\ pc' = "files")]_vars

C20_Witness ==
    /\ pc = "aborted"
    /\ raised_at = 2
    /\ Len(files) = 1
    /\ log = <<"LocalService">>
    /\ Len(files[1].service) = 2
    /\ ~has_local_workload

====
